---- MODULE Spec2Model ----
(***************************************************************************)
(* Model of supyr_struct/buffer.py: the BytesBuffer, BytearrayBuffer and   *)
(* PeekableMmap cursor buffers and the get_rawdata resolver.               *)
(*                                                                         *)
(* The model follows one object at a time; cls is its class.  content is   *)
(* the byte sequence the object is (bytes, bytearray, mapped file), pos is  *)
(* its read/write pointer (self._pos, or the mmap's own position).  last   *)
(* is the call in progress as its caller sees it once the method is done:  *)
(* the arguments, the state the call started from and what it returned or  *)
(* raised.  The caller then takes the result (Return) and is free to make  *)
(* the next call.                                                          *)
(*                                                                         *)
(* For get_rawdata: G is the bytearray the caller passed as rawdata, alias *)
(* tells whether the returned object and G are one and the same storage,   *)
(* and fs is the file at filepath.  For get_rawdata_context: ctx is the    *)
(* context manager object (its _close_rawdata, and how far the with        *)
(* statement has got) and closed tells whether the resolved object has     *)
(* been closed.                                                            *)
(***************************************************************************)
EXTENDS Integers, Sequences, FiniteSets

VARIABLES cls, content, pos, last, G, alias, fs, ctx, closed

vars == <<cls, content, pos, last, G, alias, fs, ctx, closed>>

(***************************************************************************)
(* Bounds of the model.                                                    *)
(***************************************************************************)
MaxLen  == 4    \* longest content a buffer is constructed over
MaxSize == 5    \* a write that would grow a bytearray beyond this is not taken
MaxPos  == 5    \* a call that would move the pointer beyond +-MaxPos is not taken
MaxArg  == 2    \* count and offset are drawn from -MaxArg..MaxArg
MaxSeek == 5    \* the pos argument of seek is drawn from -MaxSeek..MaxSeek
MaxData == 2    \* longest data passed to write
MaxRaw  == 2    \* longest rawdata, and longest file, given to get_rawdata

\* Byte values.  Slicing, extension and slice assignment never inspect a
\* byte, so two values (zero, the fill byte, and one non-zero byte) tell
\* apart any two results that differ in length or in the origin of a byte.
Byte == {0, 1}

\* os.SEEK_SET, os.SEEK_CUR, os.SEEK_END
SEEK_SET == 0
SEEK_CUR == 1
SEEK_END == 2

Min(a, b) == IF a < b THEN a ELSE b
Max(a, b) == IF a > b THEN a ELSE b

BytesUpTo(n) == UNION {[1..k -> Byte] : k \in 0..n}

(***************************************************************************)
(* Python values of an argument: None, an int, a float of integral value,  *)
(* or an object of some other type (a str, say).                           *)
(***************************************************************************)
None     == [t |-> "none",  v |-> 0]
Int_(n)  == [t |-> "int",   v |-> n]
Float_(n) == [t |-> "float", v |-> n]
Other    == [t |-> "other", v |-> 0]

IntArgs   == {Int_(n) : n \in -MaxArg..MaxArg}
CountArgs == {None, Other} \cup IntArgs
OffsetArgs == {None, Other} \cup IntArgs
WhenceArgs == {Int_(n) : n \in 0..3} \cup {Float_(SEEK_END), Other}

\* whence == SEEK_SET and its like: a float compares equal to the int of
\* its value.
IsMode(whence, m) == whence.t \in {"int", "float"} /\ whence.v = m

(***************************************************************************)
(* Python sequence slicing.                                                *)
(***************************************************************************)
\* A slice bound i clamped to a sequence of length n (PySlice_AdjustIndices).
Adjust(i, n) == IF i < 0 THEN Max(i + n, 0) ELSE Min(i, n)

\* s[a:b]
Slice(s, a, b) ==
    LET i == Adjust(a, Len(s))
        j == Adjust(b, Len(s))
    IN  IF i < j THEN SubSeq(s, i + 1, j) ELSE <<>>

\* s[a:]
SliceFrom(s, a) == Slice(s, a, Len(s))

\* s[a:b] = d on a bytearray: the slice (empty when b is left of a) is
\* replaced by d, whatever the two lengths.
SliceAssign(s, a, b, d) ==
    LET i == Adjust(a, Len(s))
        j == Max(Adjust(b, Len(s)), i)
    IN  SubSeq(s, 1, i) \o d \o SubSeq(s, j + 1, Len(s))

\* b'\x00' * n
Zeros(n) == [k \in 1..Max(n, 0) |-> 0]

(***************************************************************************)
(* Outcome of a call: err = "" when it returns, else the exception raised; *)
(* ret the bytes returned; pos and content the object's state afterwards.  *)
(***************************************************************************)
Returns(r, p, c) == [err |-> "", ret |-> r, pos |-> p, content |-> c]
Raises(e, p, c)  == [err |-> e,  ret |-> <<>>, pos |-> p, content |-> c]

(***************************************************************************)
(* BytesBuffer                                                             *)
(***************************************************************************)
\* BytesBuffer.peek with the slice written self[pos:count].
BytesBuffer_peek_stop_is_count(c, p, count, offset) ==
    LET at == IF offset.t = "none" THEN p ELSE offset.v
    IN  IF offset.t = "other"
        THEN Raises(IF count.t = "none" THEN "TypeError" ELSE "AssertionError", p, c)
        ELSE IF count.t = "int"
        THEN IF at + count.v < Len(c)
             THEN Returns(Slice(c, at, count.v), p, c)
             ELSE Returns(Slice(c, at, at + Len(c)), p, c)
        ELSE IF count.t = "none"
        THEN Returns(SliceFrom(c, at), p, c)
        ELSE Raises("AssertionError", p, c)

\* BytesBuffer.peek: slices at offset (or at the pointer), never touches
\* self._pos.  pos + count raising TypeError (count None or not a number)
\* falls through to the assert.
BytesBuffer_peek(c, p, count, offset) ==
    LET at == IF offset.t = "none" THEN p ELSE offset.v
    IN  IF offset.t = "other"
        THEN Raises(IF count.t = "none" THEN "TypeError" ELSE "AssertionError", p, c)
        ELSE IF count.t = "int"
        THEN IF at + count.v < Len(c)
             THEN Returns(Slice(c, at, at + count.v), p, c)
             ELSE Returns(Slice(c, at, at + Len(c)), p, c)
        ELSE IF count.t = "none"
        THEN Returns(SliceFrom(c, at), p, c)
        ELSE Raises("AssertionError", p, c)

\* BytesBuffer.read without the else branch that stops at len(self).
BytesBuffer_read_unclamped(c, p, count) ==
    IF count.t = "int"
    THEN Returns(Slice(c, p, p + count.v), p + count.v, c)
    ELSE IF count.t = "none"
    THEN Returns(SliceFrom(c, p), Len(c), c)
    ELSE Raises("AssertionError", p, c)

\* BytesBuffer.read
BytesBuffer_read(c, p, count) ==
    IF count.t = "int"
    THEN LET new_pos == IF p + count.v < Len(c) THEN p + count.v ELSE Len(c)
         IN  Returns(Slice(c, p, new_pos), new_pos, c)
    ELSE IF count.t = "none"
    THEN Returns(SliceFrom(c, p), Len(c), c)
    ELSE Raises("AssertionError", p, c)

\* BytesBuffer.seek with the range test left out.
BytesBuffer_seek_to_unchecked(c, p, target) ==
    IF ~(target >= 0) THEN Raises("AssertionError", p, c)
    ELSE Returns(<<>>, target, c)

\* The three identical branches of BytesBuffer.seek once the target is
\* computed: the assert, the range test, the assignment.
BytesBuffer_seek_to(c, p, target) ==
    IF ~(target >= 0) THEN Raises("AssertionError", p, c)
    ELSE IF target \notin 0..Len(c) THEN Raises("IndexError", p, c)
    ELSE Returns(<<>>, target, c)

\* BytesBuffer.seek
BytesBuffer_seek(c, p, to, whence) ==
    IF IsMode(whence, SEEK_SET) THEN BytesBuffer_seek_to(c, p, to)
    ELSE IF IsMode(whence, SEEK_CUR) THEN BytesBuffer_seek_to(c, p, p + to)
    ELSE IF IsMode(whence, SEEK_END) THEN BytesBuffer_seek_to(c, p, to + Len(c))
    ELSE IF whence.t = "int" THEN Raises("ValueError", p, c)
    ELSE Raises("TypeError", p, c)

\* BytesBuffer.write that lets an empty write through.
BytesBuffer_write_empty_ok(c, p, s) ==
    IF s.ok /\ s.bytes = <<>> THEN Returns(<<>>, p, c) ELSE Raises("IOError", p, c)

\* BytesBuffer.write
BytesBuffer_write(c, p, s) == Raises("IOError", p, c)

(***************************************************************************)
(* BytearrayBuffer                                                         *)
(***************************************************************************)
\* BytearrayBuffer.peek that leaves the pointer where it read.
BytearrayBuffer_peek_moves(c, p, count, offset) ==
    LET at == IF offset.t = "none" THEN p ELSE offset.v
    IN  IF offset.t = "other"
        THEN Raises(IF count.t = "none" THEN "TypeError" ELSE "AssertionError", p, c)
        ELSE IF count.t = "int"
        THEN IF at + count.v < Len(c)
             THEN Returns(Slice(c, at, at + count.v), at + count.v, c)
             ELSE Returns(Slice(c, at, at + Len(c)), Len(c), c)
        ELSE IF count.t = "none"
        THEN Returns(SliceFrom(c, at), Len(c), c)
        ELSE Raises("AssertionError", p, c)

\* BytearrayBuffer.peek
BytearrayBuffer_peek(c, p, count, offset) ==
    LET at == IF offset.t = "none" THEN p ELSE offset.v
    IN  IF offset.t = "other"
        THEN Raises(IF count.t = "none" THEN "TypeError" ELSE "AssertionError", p, c)
        ELSE IF count.t = "int"
        THEN IF at + count.v < Len(c)
             THEN Returns(Slice(c, at, at + count.v), p, c)
             ELSE Returns(Slice(c, at, at + Len(c)), p, c)
        ELSE IF count.t = "none"
        THEN Returns(SliceFrom(c, at), p, c)
        ELSE Raises("AssertionError", p, c)

\* BytearrayBuffer.read
BytearrayBuffer_read(c, p, count) ==
    IF count.t = "int"
    THEN LET new_pos == IF p + count.v < Len(c) THEN p + count.v ELSE Len(c)
         IN  Returns(Slice(c, p, new_pos), new_pos, c)
    ELSE IF count.t = "none"
    THEN Returns(SliceFrom(c, p), Len(c), c)
    ELSE Raises("AssertionError", p, c)

\* BytearrayBuffer.seek adding pos to the pointer ahead of the whence test.
BytearrayBuffer_seek_moves_first(c, p, to, whence) ==
    IF IsMode(whence, SEEK_SET) THEN Returns(<<>>, to, c)
    ELSE IF IsMode(whence, SEEK_CUR) THEN Returns(<<>>, p + to, c)
    ELSE IF IsMode(whence, SEEK_END) THEN Returns(<<>>, to + Len(c), c)
    ELSE IF whence.t = "int" THEN Raises("ValueError", p + to, c)
    ELSE Raises("TypeError", p + to, c)

\* BytearrayBuffer.seek: the pointer is set to the arithmetic result.
BytearrayBuffer_seek(c, p, to, whence) ==
    IF IsMode(whence, SEEK_SET) THEN Returns(<<>>, to, c)
    ELSE IF IsMode(whence, SEEK_CUR) THEN Returns(<<>>, p + to, c)
    ELSE IF IsMode(whence, SEEK_END) THEN Returns(<<>>, to + Len(c), c)
    ELSE IF whence.t = "int" THEN Raises("ValueError", p, c)
    ELSE Raises("TypeError", p, c)

\* BytearrayBuffer.write extending by str_len - len(self) only.
BytearrayBuffer_write_short_fill(c, p, s) ==
    IF ~s.ok THEN Raises("TypeError", p, c)
    ELSE LET str_len  == Len(s.bytes)
             extended == IF Len(c) < str_len + p
                         THEN c \o Zeros(str_len - Len(c))
                         ELSE c
         IN  Returns(<<>>, p + str_len,
                     SliceAssign(extended, p, p + str_len, s.bytes))

\* BytearrayBuffer.write assigning to self[self._pos:], which drops what
\* lay behind the written bytes.
BytearrayBuffer_write_truncates(c, p, s) ==
    IF ~s.ok THEN Raises("TypeError", p, c)
    ELSE LET str_len  == Len(s.bytes)
             extended == IF Len(c) < str_len + p
                         THEN c \o Zeros(str_len - Len(c) + p)
                         ELSE c
         IN  Returns(<<>>, p + str_len,
                     SliceAssign(extended, p, Len(extended), s.bytes))

\* BytearrayBuffer.write.  s is [ok, bytes]: memoryview(s) raises TypeError
\* for an object without the buffer protocol (ok = FALSE).
BytearrayBuffer_write(c, p, s) ==
    IF ~s.ok THEN Raises("TypeError", p, c)
    ELSE LET str_len  == Len(s.bytes)
             extended == IF Len(c) < str_len + p
                         THEN c \o Zeros(str_len - Len(c) + p)
                         ELSE c
         IN  Returns(<<>>, p + str_len,
                     SliceAssign(extended, p, p + str_len, s.bytes))

(***************************************************************************)
(* PeekableMmap.  seek, read and tell are mmap.mmap's own.                 *)
(***************************************************************************)
\* mmap.seek(to, whence): the position must stay within the mapping.
mmap_seek(c, p, to, whence) ==
    LET where == IF whence = SEEK_SET THEN to
                 ELSE IF whence = SEEK_CUR THEN p + to
                 ELSE to + Len(c)
    IN  IF whence \notin {SEEK_SET, SEEK_CUR, SEEK_END} THEN Raises("ValueError", p, c)
        ELSE IF where < 0 \/ where > Len(c) THEN Raises("ValueError", p, c)
        ELSE Returns(<<>>, where, c)

\* mmap.read(n): None or a negative n reads to the end of the mapping.
mmap_read(c, p, count) ==
    IF count.t = "other" THEN Raises("TypeError", p, c)
    ELSE LET remaining == Len(c) - p
             n == IF count.t = "none" \/ count.v < 0 \/ count.v > remaining
                  THEN remaining ELSE count.v
         IN  Returns(SubSeq(c, p + 1, p + n), p + n, c)

\* PeekableMmap.peek without the except clause.
PeekableMmap_peek_no_except(c, p, count, offset) ==
    LET orig_pos == p
        sought   == IF offset.t = "none" THEN Returns(<<>>, p, c)
                    ELSE IF offset.t = "other" THEN Raises("TypeError", p, c)
                    ELSE mmap_seek(c, p, offset.v, SEEK_SET)
        data     == IF sought.err = "" THEN mmap_read(c, sought.pos, count)
                    ELSE sought
        restored == mmap_seek(c, data.pos, orig_pos, SEEK_SET)
    IN  IF data.err # ""
        THEN Raises(data.err, data.pos, c)
        ELSE Returns(data.ret, restored.pos, c)

\* PeekableMmap.peek: seek(orig_pos) runs on the exception path and on the
\* normal path.
PeekableMmap_peek(c, p, count, offset) ==
    LET orig_pos == p
        sought   == IF offset.t = "none" THEN Returns(<<>>, p, c)
                    ELSE IF offset.t = "other" THEN Raises("TypeError", p, c)
                    ELSE mmap_seek(c, p, offset.v, SEEK_SET)
        data     == IF sought.err = "" THEN mmap_read(c, sought.pos, count)
                    ELSE sought
        restored == mmap_seek(c, data.pos, orig_pos, SEEK_SET)
    IN  IF data.err # ""
        THEN Raises(data.err, restored.pos, c)
        ELSE Returns(data.ret, restored.pos, c)

(***************************************************************************)
(* Dispatch on the class of the object.                                    *)
(***************************************************************************)
read(k, c, p, count) ==
    CASE k = "BytesBuffer"     -> BytesBuffer_read(c, p, count)
      [] k = "BytearrayBuffer" -> BytearrayBuffer_read(c, p, count)
      [] k = "PeekableMmap"    -> mmap_read(c, p, count)

seek(k, c, p, to, whence) ==
    CASE k = "BytesBuffer"     -> BytesBuffer_seek(c, p, to, whence)
      [] k = "BytearrayBuffer" -> BytearrayBuffer_seek(c, p, to, whence)
      [] k = "PeekableMmap"    ->
             IF whence.t = "int" THEN mmap_seek(c, p, to, whence.v)
             ELSE Raises("TypeError", p, c)

peek(k, c, p, count, offset) ==
    CASE k = "BytesBuffer"     -> BytesBuffer_peek(c, p, count, offset)
      [] k = "BytearrayBuffer" -> BytearrayBuffer_peek(c, p, count, offset)
      [] k = "PeekableMmap"    -> PeekableMmap_peek(c, p, count, offset)

write(k, c, p, s) ==
    CASE k = "BytesBuffer"     -> BytesBuffer_write(c, p, s)
      [] k = "BytearrayBuffer" -> BytearrayBuffer_write(c, p, s)

\* Buffer.peek, the default peek, on an object of class k: tell, seek to
\* the offset if one is given, read, seek back.  There is no try around
\* the read.  stage names the call that raised.
Buffer_peek(k, c, p, count, offset) ==
    LET saved    == p
        sought   == IF offset.t = "none" THEN Returns(<<>>, p, c)
                    ELSE seek(k, c, p, offset.v, Int_(SEEK_SET))
        data     == read(k, c, sought.pos, count)
        restored == seek(k, c, data.pos, saved, Int_(SEEK_SET))
    IN  IF sought.err # ""
        THEN [err |-> sought.err, ret |-> <<>>, pos |-> sought.pos,
              content |-> c, stage |-> "seek"]
        ELSE IF data.err # ""
        THEN [err |-> data.err, ret |-> <<>>, pos |-> data.pos,
              content |-> c, stage |-> "read"]
        ELSE IF restored.err # ""
        THEN [err |-> restored.err, ret |-> <<>>, pos |-> restored.pos,
              content |-> c, stage |-> "restore"]
        ELSE [err |-> "", ret |-> data.ret, pos |-> restored.pos,
              content |-> c, stage |-> ""]

Buffers == {"BytesBuffer", "BytearrayBuffer", "PeekableMmap"}

(***************************************************************************)
(* The record of a call.                                                   *)
(***************************************************************************)
NoData == [ok |-> TRUE, bytes |-> <<>>]

Call(op, count, offset, to, whence, s, r) ==
    [op |-> op, count |-> count, offset |-> offset, to |-> to,
     whence |-> whence, s |-> s,
     pos0 |-> pos, content0 |-> content, G0 |-> G,
     err |-> r.err, ret |-> r.ret]

NoCall ==
    [op |-> "init", count |-> None, offset |-> None, to |-> 0,
     whence |-> Int_(SEEK_SET), s |-> NoData,
     pos0 |-> 0, content0 |-> <<>>, G0 |-> <<>>, err |-> "", ret |-> <<>>]

NoFile == [exists |-> FALSE, data |-> <<>>]

\* No get_rawdata_context has been constructed.
NoContext == [phase |-> "none", close_rawdata |-> FALSE,
              supplied |-> FALSE, same |-> FALSE]

\* The model follows a call only while the pointer and the length stay
\* within the bounds.
Within(r) == r.pos \in -MaxPos..MaxPos /\ Len(r.content) <= MaxSize

(***************************************************************************)
(* Init: Buffer.__init__ has run on an object constructed over some        *)
(* content (for a mapping: a fresh mmap of a non-empty file).              *)
(***************************************************************************)
Init ==
    /\ cls \in Buffers
    /\ content \in BytesUpTo(MaxLen)
    /\ cls = "PeekableMmap" => Len(content) > 0
    /\ pos = 0
    /\ last = NoCall
    /\ G = <<>>
    /\ alias = FALSE
    /\ fs = NoFile
    /\ ctx = NoContext
    /\ closed = FALSE

Read ==
    \E count \in CountArgs :
        LET r == IF closed THEN Raises("ValueError", pos, content)
                 ELSE read(cls, content, pos, count) IN
        /\ cls \in Buffers
        /\ last = NoCall
        /\ Within(r)
        /\ pos' = r.pos
        /\ content' = r.content
        /\ last' = Call("read", count, None, 0, Int_(SEEK_SET), NoData, r)
        /\ UNCHANGED <<cls, G, alias, fs, ctx, closed>>

Seek ==
    \E to \in -MaxSeek..MaxSeek, whence \in WhenceArgs :
        LET r == seek(cls, content, pos, to, whence) IN
        /\ cls \in Buffers
        /\ last = NoCall
        /\ Within(r)
        /\ pos' = r.pos
        /\ content' = r.content
        /\ last' = Call("seek", None, None, to, whence, NoData, r)
        /\ UNCHANGED <<cls, G, alias, fs, ctx, closed>>

Peek ==
    \E count \in CountArgs, offset \in OffsetArgs :
        LET r == peek(cls, content, pos, count, offset) IN
        /\ cls \in Buffers
        /\ last = NoCall
        /\ Within(r)
        /\ pos' = r.pos
        /\ content' = r.content
        /\ last' = Call("peek", count, offset, 0, Int_(SEEK_SET), NoData, r)
        /\ UNCHANGED <<cls, G, alias, fs, ctx, closed>>

WriteArgs == {[ok |-> TRUE, bytes |-> d] : d \in BytesUpTo(MaxData)}
                 \cup {[ok |-> FALSE, bytes |-> <<>>]}

Write ==
    \E s \in WriteArgs :
        LET r == write(cls, content, pos, s) IN
        /\ cls \in {"BytesBuffer", "BytearrayBuffer"}
        /\ last = NoCall
        /\ Within(r)
        /\ pos' = r.pos
        /\ content' = r.content
        /\ last' = Call("write", None, None, 0, Int_(SEEK_SET), s, r)
        /\ G' = (IF alias THEN r.content ELSE G)
        /\ UNCHANGED <<cls, alias, fs, ctx, closed>>

\* The caller has the result of the call; the object is unchanged.
Return ==
    /\ last # NoCall
    /\ last' = NoCall
    /\ UNCHANGED <<cls, content, pos, G, alias, fs, ctx, closed>>

Next == Read \/ Seek \/ Peek \/ Write \/ Return

Spec == Init /\ [][Next]_vars

\* Buffer.peek(count, offset) called on the object, as a subclass that
\* overloads only read, seek and tell inherits it.  The offset is an int
\* or omitted.
BufferPeek ==
    \E count \in CountArgs, offset \in {None} \cup IntArgs :
        LET r == Buffer_peek(cls, content, pos, count, offset) IN
        /\ cls \in Buffers
        /\ last = NoCall
        /\ Within(r)
        /\ pos' = r.pos
        /\ content' = r.content
        /\ last' = [op |-> "Buffer.peek", count |-> count, offset |-> offset,
                    pos0 |-> pos, content0 |-> content,
                    err |-> r.err, ret |-> r.ret, stage |-> r.stage]
        /\ UNCHANGED <<cls, G, alias, fs, ctx, closed>>

NextBase == Read \/ Seek \/ Write \/ BufferPeek \/ Return

SpecBase == Init /\ [][NextBase]_vars

(***************************************************************************)
(* get_rawdata                                                             *)
(***************************************************************************)
\* The filepath keyword: absent, the empty path (Path("") is "."), or the
\* path of a file.
PathArgs == {"absent", "dot", "path"}

\* supyr_struct.util.is_path_empty
is_path_empty(filepath) == filepath \in {"absent", "dot"}

\* The rawdata keyword: absent, a bytes, a bytearray, or some other object
\* with the attributes attrs and the truth value truthy.
Attrs == {"read", "seek", "peek"}
RawdataArgs ==
    {[t |-> "absent", bytes |-> <<>>, attrs |-> {}, truthy |-> FALSE]}
    \cup {[t |-> k, bytes |-> b, attrs |-> {}, truthy |-> (Len(b) > 0)] :
             k \in {"bytes", "bytearray"}, b \in BytesUpTo(MaxRaw)}
    \cup {[t |-> "object", bytes |-> <<>>, attrs |-> a, truthy |-> tv] :
             a \in SUBSET Attrs, tv \in BOOLEAN}

\* The writable keyword: absent (kwargs.get gives True), True or False.
WritableArgs == {"absent", "True", "False"}

\* The file at filepath before the call.
FileStates == {NoFile} \cup {[exists |-> TRUE, data |-> d] : d \in BytesUpTo(MaxRaw)}

\* What get_rawdata hands back: the class and state of the returned
\* object (cls "raised" when it raises), whether it is the rawdata object
\* itself, the mode and access the file was opened with, the file after.
Resolved(e, k, c, same, sh, m, a, f) ==
    [err |-> e, cls |-> k, content |-> c, pos |-> 0, same |-> same,
     alias |-> sh, open_mode |-> m, access |-> a, file |-> f]

\* BytesBuffer(rawdata): a new bytes object with Buffer.__init__'s _pos.
BytesBuffer_init(rawdata, f) ==
    Resolved("", "BytesBuffer", rawdata.bytes, FALSE, FALSE, "", "", f)

\* BytearrayBuffer(rawdata) keeping the caller's bytearray as its storage.
BytearrayBuffer_init_shared(rawdata, f) ==
    Resolved("", "BytearrayBuffer", rawdata.bytes, FALSE, TRUE, "", "", f)

\* BytearrayBuffer(rawdata): bytearray.__init__ copies the bytes of its
\* argument into the new object's own storage.
BytearrayBuffer_init(rawdata, f) ==
    Resolved("", "BytearrayBuffer", rawdata.bytes, FALSE, FALSE, "", "", f)

\* The filepath branch of get_rawdata: choose the mode, open, map.
get_rawdata_open(writable, f) ==
    LET open_mode == IF writable = "False" THEN "rb"
                     ELSE IF f.exists THEN "r+b" ELSE "w+b"
        access    == IF writable = "False" THEN "ACCESS_READ" ELSE "ACCESS_WRITE"
        opened    == IF open_mode = "w+b" THEN [exists |-> TRUE, data |-> <<>>] ELSE f
    IN  IF open_mode = "rb" /\ ~f.exists
        THEN Resolved("FileNotFoundError", "raised", <<>>, FALSE, FALSE,
                      open_mode, access, f)
        ELSE IF Len(opened.data) = 0
        THEN Resolved("", "file", <<>>, FALSE, FALSE, open_mode, access, opened)
        ELSE Resolved("", "PeekableMmap", opened.data, FALSE, FALSE,
                      open_mode, access, opened)

\* get_rawdata as its docstring has it: rawdata needs read, seek and peek.
get_rawdata_needs_peek(filepath, rawdata, writable, f) ==
    IF ~is_path_empty(filepath)
    THEN IF rawdata.truthy
         THEN Resolved("TypeError", "raised", <<>>, FALSE, FALSE, "", "", f)
         ELSE get_rawdata_open(writable, f)
    ELSE IF ~rawdata.truthy
    THEN Resolved("", "None", <<>>, FALSE, FALSE, "", "", f)
    ELSE IF rawdata.t = "bytes" THEN BytesBuffer_init(rawdata, f)
    ELSE IF rawdata.t = "bytearray" THEN BytearrayBuffer_init(rawdata, f)
    ELSE IF ~(Attrs \subseteq rawdata.attrs)
    THEN Resolved("TypeError", "raised", <<>>, FALSE, FALSE, "", "", f)
    ELSE Resolved("", "object", <<>>, TRUE, FALSE, "", "", f)

\* get_rawdata(filepath=, rawdata=, writable=)
get_rawdata(filepath, rawdata, writable, f) ==
    IF ~is_path_empty(filepath)
    THEN IF rawdata.truthy
         THEN Resolved("TypeError", "raised", <<>>, FALSE, FALSE, "", "", f)
         ELSE get_rawdata_open(writable, f)
    ELSE IF ~rawdata.truthy
    THEN Resolved("", "None", <<>>, FALSE, FALSE, "", "", f)
    ELSE IF rawdata.t = "bytes" THEN BytesBuffer_init(rawdata, f)
    ELSE IF rawdata.t = "bytearray" THEN BytearrayBuffer_init(rawdata, f)
    ELSE IF ~("read" \in rawdata.attrs /\ "seek" \in rawdata.attrs)
    THEN Resolved("TypeError", "raised", <<>>, FALSE, FALSE, "", "", f)
    ELSE Resolved("", "object", <<>>, TRUE, FALSE, "", "", f)

\* Nothing has been resolved yet.
InitRaw ==
    /\ cls = "unresolved"
    /\ content = <<>>
    /\ pos = 0
    /\ last = NoCall
    /\ G = <<>>
    /\ alias = FALSE
    /\ fs = NoFile
    /\ ctx = NoContext
    /\ closed = FALSE

\* A call of get_rawdata.  G is the caller's bytearray when rawdata is one.
GetRawdata ==
    \E filepath \in PathArgs, rawdata \in RawdataArgs,
       writable \in WritableArgs, f \in FileStates :
        LET r == get_rawdata(filepath, rawdata, writable, f) IN
        /\ cls = "unresolved"
        /\ last = NoCall
        /\ is_path_empty(filepath) => f = NoFile
        /\ cls' = r.cls
        /\ content' = r.content
        /\ pos' = r.pos
        /\ alias' = r.alias
        /\ G' = (IF rawdata.t = "bytearray" THEN rawdata.bytes ELSE <<>>)
        /\ fs' = r.file
        /\ last' = [op |-> "get_rawdata", filepath |-> filepath,
                    rawdata |-> rawdata, writable |-> writable, file0 |-> f,
                    err |-> r.err, same |-> r.same,
                    open_mode |-> r.open_mode, access |-> r.access]
        /\ UNCHANGED <<ctx, closed>>

\* The caller changes its own bytearray G in place: G[i] = b, G.append(b)
\* or del G[-1].
CallerMutates ==
    \E g \in {[G EXCEPT ![i] = b] : i \in 1..Len(G), b \in Byte}
             \cup {Append(G, b) : b \in Byte}
             \cup {SubSeq(G, 1, Len(G) - 1)} :
        /\ cls = "BytearrayBuffer"
        /\ last = NoCall
        /\ g # G
        /\ Len(g) <= MaxRaw
        /\ G' = g
        /\ content' = (IF alias THEN g ELSE content)
        /\ last' = [op |-> "mutate", pos0 |-> pos, content0 |-> content, G0 |-> G]
        /\ UNCHANGED <<cls, pos, alias, fs, ctx, closed>>

NextRaw == GetRawdata \/ Write \/ CallerMutates \/ Return

SpecRaw == InitRaw /\ [][NextRaw]_vars

(***************************************************************************)
(* get_rawdata_context                                                     *)
(***************************************************************************)
\* How the body of the with statement is left.
ExitPaths == {"normal", "return", "raise"}

\* self._rawdata.close() on an object of class k.  None and the two
\* in-memory buffers have no close attribute; the close of a mapping
\* (BufferError while a buffer of it is exported) or of a file handle
\* (OSError) raises when fail, and leaves the object open.
rawdata_close(k, fail) ==
    IF k \in {"None", "BytesBuffer", "BytearrayBuffer"}
    THEN [err |-> "AttributeError", closed |-> FALSE]
    ELSE IF fail
    THEN [err |-> (IF k = "PeekableMmap" THEN "BufferError" ELSE "OSError"),
          closed |-> FALSE]
    ELSE [err |-> "", closed |-> TRUE]

\* An __init__ that marks every resolved object for closing.
get_rawdata_context_init_closes_all(rawdata) == TRUE

\* get_rawdata_context.__init__: _close_rawdata is whether the rawdata
\* keyword is None.
get_rawdata_context_init(rawdata) == rawdata.t = "absent"

\* An __exit__ without the except clause.
get_rawdata_context_exit_no_except(close_rawdata, k, isclosed, fail) ==
    IF ~close_rawdata
    THEN [err |-> "", closed |-> isclosed, called |-> FALSE, close_err |-> ""]
    ELSE LET c == rawdata_close(k, fail) IN
         [err |-> c.err, closed |-> (isclosed \/ c.closed),
          called |-> TRUE, close_err |-> c.err]

\* get_rawdata_context.__exit__: close when _close_rawdata, and return on
\* an AttributeError.  It never looks at how the body was left.
get_rawdata_context_exit(close_rawdata, k, isclosed, fail) ==
    IF ~close_rawdata
    THEN [err |-> "", closed |-> isclosed, called |-> FALSE, close_err |-> ""]
    ELSE LET c == rawdata_close(k, fail) IN
         [err |-> (IF c.err = "AttributeError" THEN "" ELSE c.err),
          closed |-> (isclosed \/ c.closed),
          called |-> TRUE, close_err |-> c.err]

\* with get_rawdata_context(filepath=, rawdata=, writable=) as r: the
\* constructor and __enter__.  When get_rawdata raises there is no scope.
ContextEnter ==
    \E filepath \in PathArgs, rawdata \in RawdataArgs,
       writable \in WritableArgs, f \in FileStates :
        LET r == get_rawdata(filepath, rawdata, writable, f) IN
        /\ ctx.phase = "none"
        /\ last = NoCall
        /\ is_path_empty(filepath) => f = NoFile
        /\ cls' = r.cls
        /\ content' = r.content
        /\ pos' = r.pos
        /\ alias' = r.alias
        /\ G' = (IF rawdata.t = "bytearray" THEN rawdata.bytes ELSE <<>>)
        /\ fs' = r.file
        /\ ctx' = [phase |-> (IF r.err = "" THEN "open" ELSE "failed"),
                   close_rawdata |-> get_rawdata_context_init(rawdata),
                   supplied |-> (rawdata.t # "absent"),
                   same |-> r.same]
        /\ closed' = FALSE
        /\ last' = [op |-> "__init__", filepath |-> filepath,
                    rawdata |-> rawdata, writable |-> writable, file0 |-> f,
                    err |-> r.err]

\* The with statement is left along one of the exit paths and __exit__
\* runs; the close it may call fails or not.
ContextExit ==
    \E how \in ExitPaths, fail \in BOOLEAN :
        LET r == get_rawdata_context_exit(ctx.close_rawdata, cls, closed, fail) IN
        /\ ctx.phase = "open"
        /\ last = NoCall
        /\ fail => (ctx.close_rawdata /\ cls \in {"PeekableMmap", "file", "object"})
        /\ closed' = r.closed
        /\ ctx' = [ctx EXCEPT !.phase = "exited"]
        /\ last' = [op |-> "__exit__", how |-> how, err |-> r.err,
                    called |-> r.called, close_err |-> r.close_err]
        /\ UNCHANGED <<cls, content, pos, G, alias, fs>>

NextCtx == ContextEnter \/ ContextExit \/ Read \/ Return

SpecCtx == InitRaw /\ [][NextCtx]_vars

(***************************************************************************)
(* Properties.  A call is judged in the state where its caller has the     *)
(* result: last.op names it, last.pos0 and last.content0 are the state it  *)
(* started from, pos and content the state it left.                        *)
(***************************************************************************)
IsBytes     == cls = "BytesBuffer"
IsBytearray == cls = "BytearrayBuffer"
IsMmap      == cls = "PeekableMmap"
L0          == Len(last.content0)

\* C1: on every backend peek(count, offset) leaves the cursor where it
\* was, whether it returns bytes or the seek or read inside it fails.
C1_PeekKeepsCursor ==
    last.op = "peek" => pos = last.pos0

\* A PeekableMmap peek whose seek moved the pointer and whose read then
\* failed.
C1_Witness ==
    /\ IsMmap /\ last.op = "peek"
    /\ last.offset.t = "int" /\ last.offset.v \in 0..L0
    /\ last.offset.v # last.pos0
    /\ last.count.t = "other" /\ last.err = "TypeError"

\* The target the three seek modes compute.
SeekTarget == CASE last.whence.v = SEEK_SET -> last.to
                [] last.whence.v = SEEK_CUR -> last.pos0 + last.to
                [] last.whence.v = SEEK_END -> L0 + last.to

\* C2: BytesBuffer.seek(pos, whence) with one of the three modes succeeds
\* exactly when 0 <= target <= L and then sets the cursor to target;
\* otherwise it fails and the cursor is the one before the call.
C2_SeekBounds ==
    (IsBytes /\ last.op = "seek" /\ last.whence.t = "int"
        /\ last.whence.v \in {SEEK_SET, SEEK_CUR, SEEK_END})
    => IF 0 <= SeekTarget /\ SeekTarget <= L0
       THEN last.err = "" /\ pos = SeekTarget
       ELSE last.err # "" /\ pos = last.pos0

\* seek(-2, FromEnd) on a 4-byte buffer, from a cursor elsewhere, has set
\* the cursor to 2.
C2_Witness ==
    /\ IsBytes /\ last.op = "seek" /\ L0 = 4 /\ last.pos0 = 4
    /\ last.whence = Int_(SEEK_END) /\ last.to = -2
    /\ last.err = "" /\ pos = 2

\* C3: the cursor of a BytesBuffer stays within 0..L over any sequence of
\* read, seek, peek and write calls with any integer arguments.
C3_CursorInRange ==
    IsBytes => 0 <= pos /\ pos <= Len(content)

\* C4: BytesBuffer.read with the cursor in 0..L: read(n), n >= 0, returns
\* C[pos : min(pos+n, L)] and leaves the cursor at min(pos+n, L); read()
\* returns C[pos : L] and leaves the cursor at L; neither fails.
C4_ReadSlice ==
    (IsBytes /\ last.op = "read" /\ last.pos0 \in 0..L0
        /\ (last.count.t = "none" \/ (last.count.t = "int" /\ last.count.v >= 0)))
    => LET end == IF last.count.t = "none" THEN L0
                  ELSE Min(last.pos0 + last.count.v, L0)
       IN  /\ last.err = ""
           /\ last.ret = SubSeq(last.content0, last.pos0 + 1, end)
           /\ pos = end

\* A read(n) that asked for more than was left and got the non-empty tail.
C4_Witness ==
    /\ IsBytes /\ last.op = "read" /\ last.count.t = "int"
    /\ last.pos0 > 0 /\ last.pos0 < L0
    /\ last.pos0 + last.count.v > L0
    /\ last.ret # <<>> /\ pos = L0

\* C5: BytesBuffer.write fails for every cursor and every data, leaves
\* content, size and cursor as they were, and a later read still succeeds.
C5_WriteRejected ==
    (IsBytes /\ last.op = "write")
    => /\ last.err # ""
       /\ content = last.content0
       /\ pos = last.pos0
       /\ BytesBuffer_read(content, pos, None).err = ""

\* A write of empty data with the cursor moved off the start.
C5_Witness ==
    /\ IsBytes /\ last.op = "write" /\ last.pos0 > 0
    /\ last.s.ok /\ last.s.bytes = <<>> /\ last.err = "IOError"

\* C6: BytearrayBuffer.write(data) at a cursor c >= 0 (c may exceed the
\* length len0): the new length is max(len0, c+n), every byte at an index
\* in [len0, c) is zero, bytes [c, c+n) are data, and the cursor is c+n.
C6_WriteGrows ==
    (IsBytearray /\ last.op = "write" /\ last.s.ok /\ last.pos0 >= 0)
    => LET c == last.pos0
           n == Len(last.s.bytes)
       IN  /\ last.err = ""
           /\ Len(content) = Max(L0, c + n)
           /\ \A i \in L0..(c - 1) : content[i + 1] = 0
           /\ \A i \in 0..(n - 1) : content[c + i + 1] = last.s.bytes[i + 1]
           /\ pos = c + n

\* Two non-zero bytes written at cursor 3 into a 1-byte buffer: length 5,
\* bytes [1:3] zero.
C6_Witness ==
    /\ IsBytearray /\ last.op = "write" /\ L0 = 1 /\ last.pos0 = 3
    /\ last.s.bytes = <<1, 1>>
    /\ content = last.content0 \o <<0, 0, 1, 1>> /\ pos = 5

\* C7: on BytesBuffer and BytearrayBuffer, in every reachable state,
\* read(count) with count >= 0 or omitted advances the cursor by exactly
\* the number of bytes it returns.
C7_ReadAdvancesByReturned ==
    ((IsBytes \/ IsBytearray) /\ last.op = "read" /\ last.err = ""
        /\ (last.count.t = "none" \/ (last.count.t = "int" /\ last.count.v >= 0)))
    => pos - last.pos0 = Len(last.ret)

\* What seek(offset) followed by read(count) does from the state the peek
\* started in (offset omitted: read(count) alone).
SeekThenRead ==
    LET sought == IF last.offset.t = "none"
                  THEN Returns(<<>>, last.pos0, last.content0)
                  ELSE IF last.offset.t = "other"
                  THEN Raises("TypeError", last.pos0, last.content0)
                  ELSE BytesBuffer_seek(last.content0, last.pos0,
                                        last.offset.v, Int_(SEEK_SET))
    IN  IF sought.err # "" THEN sought
        ELSE BytesBuffer_read(last.content0, sought.pos, last.count)

\* Where the peek reads: the offset, or the cursor.
PeekAt == IF last.offset.t = "none" THEN last.pos0 ELSE last.offset.v

\* C8 as stated: BytesBuffer.peek(count, offset) returns what seek(offset)
\* followed by read(count) would return and fails whenever that seek or
\* read would fail.
C8_PeekIsSeekRead ==
    (IsBytes /\ last.op = "peek")
    => IF SeekThenRead.err # "" THEN last.err # ""
       ELSE last.err = "" /\ last.ret = SeekThenRead.ret

\* C8 amended: where the peek reads within 0..L (the offset, or the cursor
\* when the offset is omitted) it has the outcome of seek(offset) followed
\* by read(count); at an integer offset outside 0..L, where the seek fails,
\* the peek does not fail for a count that is an integer or omitted.
C8_PeekIsSeekReadInRange ==
    (IsBytes /\ last.op = "peek" /\ last.offset.t # "other")
    => IF PeekAt \in 0..L0
       THEN IF SeekThenRead.err # "" THEN last.err # ""
            ELSE last.err = "" /\ last.ret = SeekThenRead.ret
       ELSE last.count.t # "other" => last.err = ""

\* A peek at an offset other than the cursor that returned bytes.
C8_Witness ==
    /\ IsBytes /\ last.op = "peek" /\ last.offset.t = "int"
    /\ last.offset.v \in 0..L0 /\ last.offset.v # last.pos0
    /\ last.count.t = "int" /\ last.count.v > 0
    /\ last.ret # <<>> /\ Len(last.ret) < L0

\* The call gave get_rawdata data of type k and no filepath (empty data
\* is no data: the rawdata-empty case of C9).
OnlyRawdata(k) ==
    /\ last.op = "get_rawdata"
    /\ last.filepath = "absent"
    /\ last.rawdata.t = k
    /\ last.rawdata.bytes # <<>>

C10_WrapsAndShares ==
    /\ OnlyRawdata("bytes")
       => cls = "BytesBuffer" /\ content = last.rawdata.bytes /\ pos = 0
    /\ OnlyRawdata("bytearray")
       => cls = "BytearrayBuffer" /\ content = G /\ pos = 0
    /\ (IsBytearray /\ last.op \in {"write", "mutate"}) => content = G

\* C10 amended: with only bytes data get_rawdata returns a BytesBuffer
\* over exactly those bytes with cursor 0; with only a bytearray G it
\* returns a BytearrayBuffer with cursor 0 whose content is a copy of G:
\* equal at return, after which a write through the buffer leaves G as it
\* was and a change to G leaves the buffer as it was.
C10_WrapsAndCopies ==
    /\ OnlyRawdata("bytes")
       => cls = "BytesBuffer" /\ content = last.rawdata.bytes /\ pos = 0
    /\ OnlyRawdata("bytearray")
       => /\ cls = "BytearrayBuffer" /\ pos = 0
          /\ content = last.rawdata.bytes /\ G = last.rawdata.bytes
    /\ (IsBytearray /\ last.op = "write") => G = last.G0
    /\ (IsBytearray /\ last.op = "mutate")
       => content = last.content0 /\ pos = last.pos0

\* A write through the BytearrayBuffer that get_rawdata returned has
\* changed the buffer and not the caller's bytearray.
C10_Witness ==
    /\ IsBytearray /\ last.op = "write" /\ last.err = ""
    /\ last.content0 = last.G0 /\ content # last.content0
    /\ G = last.G0 /\ G # <<>>

\* The with statement has been left.
Exited == ctx.phase = "exited"

\* C11: leaving the scope of get_rawdata_context never closes an object
\* the caller supplied as rawdata, on any exit path: __exit__ does not
\* call close, and the object is as open as before.
C11_SuppliedStaysOpen ==
    (Exited /\ ctx.supplied)
    => /\ ~closed
       /\ last.op = "__exit__" => (~last.called /\ last.err = "")

\* The body raised with a caller's own read/seek object in scope; the
\* object handed back is that object and it is still open.
C11_Witness ==
    /\ last.op = "__exit__" /\ last.how = "raise"
    /\ ctx.supplied /\ ctx.same /\ cls = "object" /\ ~closed

\* C12: every mapping or file handle get_rawdata_context created itself
\* is closed once the scope has been left, on every exit path and for
\* every accepted argument combination (a close that itself raised aside).
C12_CreatedIsClosed ==
    (last.op = "__exit__" /\ cls \in {"PeekableMmap", "file"}
        /\ last.close_err = "")
    => closed

\* C13: no failure of the close at scope exit is surfaced, of whatever
\* kind.
C13_CloseFailureSuppressed ==
    last.op = "__exit__" => last.err = ""

\* C13, amended: a close that fails for want of a close attribute is not
\* surfaced; any other error the close raises leaves __exit__ as raised.
C13_OnlyAttributeErrorSuppressed ==
    last.op = "__exit__"
    => /\ last.close_err \in {"", "AttributeError"} => last.err = ""
       /\ last.close_err \notin {"", "AttributeError"}
            => (last.err = last.close_err /\ last.called)

\* Neither filepath nor rawdata: the scope holds None, and None.close()
\* at exit went unnoticed.
C13_Witness ==
    /\ last.op = "__exit__" /\ cls = "None" /\ last.called
    /\ last.close_err = "AttributeError" /\ last.err = ""

\* C14: get_rawdata raises TypeError for a rawdata that is neither bytes
\* nor bytearray and lacks any one of read, seek and peek.
C14_NeedsReadSeekPeek ==
    (last.op = "get_rawdata" /\ is_path_empty(last.filepath)
        /\ last.rawdata.t = "object" /\ last.rawdata.truthy
        /\ ~(Attrs \subseteq last.rawdata.attrs))
    => last.err = "TypeError"

C16_PeekTwiceSame ==
    (last.op = "peek" /\ (IsBytes \/ IsBytearray))
    => LET again == peek(cls, content, pos, last.count, last.offset)
       IN  /\ content = last.content0
           /\ again.err = last.err
           /\ again.ret = last.ret
           /\ again.content = content

\* A BytearrayBuffer peek without offset that returned bytes from the
\* middle of the buffer.
C16_Witness ==
    /\ IsBytearray /\ last.op = "peek" /\ last.offset.t = "none"
    /\ last.count.t = "int" /\ last.pos0 > 0
    /\ last.ret # <<>> /\ Len(last.ret) = last.count.v

\* C17: the default Buffer.peek restores the cursor whether it succeeds
\* or fails: when seek(offset) succeeded and read(count) failed, tell()
\* is what it was before the peek.
C17_DefaultPeekRestores ==
    (last.op = "Buffer.peek" /\ last.offset.t = "int" /\ last.stage = "read")
    => pos = last.pos0

\* C18: on a BytearrayBuffer, for every integer offset and every count
\* that is >= 0 or omitted, BytearrayBuffer.peek and the default
\* Buffer.peek return the same bytes and leave the same cursor, content
\* and length.
C18_PeekIsDefaultPeek ==
    (last.op = "Buffer.peek" /\ IsBytearray /\ last.offset.t = "int"
        /\ (last.count.t = "none" \/ (last.count.t = "int" /\ last.count.v >= 0)))
    => LET own == BytearrayBuffer_peek(last.content0, last.pos0,
                                       last.count, last.offset)
       IN  /\ own.err = last.err
           /\ own.ret = last.ret
           /\ own.pos = pos
           /\ own.content = content

\* C19: BytearrayBuffer.write(data) from any cursor c overwrites in place:
\* every byte that was at an index outside [c, c+n) is still at that index
\* with that value, the length differs only when c+n exceeds it, and the
\* cursor is c+n.
C19_WriteInPlace ==
    (IsBytearray /\ last.op = "write" /\ last.s.ok)
    => LET c == last.pos0
           n == Len(last.s.bytes)
       IN  /\ last.err = ""
           /\ \A i \in 0..(L0 - 1) :
                (i < c \/ i >= c + n)
                => (i < Len(content) /\ content[i + 1] = last.content0[i + 1])
           /\ Len(content) # L0 => c + n > L0
           /\ pos = c + n

\* C20: the size of a BytearrayBuffer never decreases, and read, seek and
\* peek leave its content and length as they were.
C20_SizeNeverDecreases ==
    (IsBytearray /\ last.op \in {"read", "seek", "peek", "write"})
    => /\ Len(content) >= L0
       /\ last.op # "write" => content = last.content0

\* A write of fewer bytes than lie ahead of the cursor, in the middle of
\* the buffer, changed a byte and left the length alone.
C20_Witness ==
    /\ IsBytearray /\ last.op = "write" /\ last.pos0 > 0
    /\ last.pos0 + Len(last.s.bytes) < L0
    /\ content # last.content0 /\ Len(content) = L0
====
